---- MODULE Spec2Model ----
(***************************************************************************)
(* Model of gmail-cli's multi-account credential store                     *)
(* (services/credentials.py), account resolution and token lifecycle       *)
(* (services/auth.py), the auth commands (cli/auth.py) and the retry       *)
(* executor around remote calls (services/gmail.py).                       *)
(*                                                                         *)
(* The system keyring is the only persistent state.  Every keyring entry   *)
(* is optional: Absent is what keyring.get_password returns for a missing  *)
(* key (None), Some(v) is a stored value.                                  *)
(***************************************************************************)
EXTENDS Integers, Sequences, FiniteSets, TLC

\* ---------------------------------------------------------------- bounds
NumAccounts == 3
MaxTime == 1
\* Message IDs a mark command is given, and how many at most.
MaxIds == 3

\* Account identities (mail addresses) are 1..NumAccounts; None is Python's
\* None (no account given / no environment variable).
Accounts == 1..NumAccounts
None == 0
AccountOrNone == Accounts \cup {None}

Absent == <<>>
Some(v) == <<v>>
Get(o) == o[1]

\* A credential record: the access token, named by the instant it was issued
\* at, and whether a refresh token comes with it.  Its expiry is TokenLifetime
\* after its issue; google-auth reports it expired from then on.
TokenLifetime == 1
Credentials(t) == [token : {t}, refresh_token : BOOLEAN]
Expired(credentials, t) == t >= credentials.token + TokenLifetime

VARIABLES
    now,       \* the clock
    keyring,   \* the persistent store: oauth[a], accounts_list, default_account, oauth_credentials
    pre,       \* the keyring as it was when the last call started
    call,      \* the last call: operation and arguments
    ret,       \* what the last call returned or raised
    pc,        \* position of the second, concurrently running invocation
    loc,       \* its local variables
    exec,      \* the call of _execute_with_retry in progress, if any
    mark       \* the invocation of the mark command in progress, if any

vars == <<now, keyring, pre, call, ret, pc, loc, exec, mark>>

\* ------------------------------------------------------- sequence helpers
InSeq(a, s) == \E i \in 1..Len(s) : s[i] = a

\* Python's list.remove: drops the first occurrence.
RemoveFirst(s, a) ==
    IF ~InSeq(a, s) THEN s
    ELSE LET i == CHOOSE j \in 1..Len(s) : s[j] = a /\ \A m \in 1..(j-1) : s[m] # a
         IN  [n \in 1..(Len(s)-1) |-> IF n < i THEN s[n] ELSE s[n+1]]

\* ------------------------------------------------------ credentials.py
list_accounts(k) ==
    IF k.accounts_list = Absent THEN <<>> ELSE Get(k.accounts_list)

get_default_account(k) == k.default_account

set_default_account(k, account) ==
    [k EXCEPT !.default_account = Some(account)]

\* Variant: appends without looking for the account first.
add_to_accounts_list_always_appends(k, account) ==
    [k EXCEPT !.accounts_list = Some(Append(list_accounts(k), account))]

add_to_accounts_list(k, account) ==
    LET accounts == list_accounts(k)
    IN  IF ~InSeq(account, accounts)
        THEN [k EXCEPT !.accounts_list = Some(Append(accounts, account))]
        ELSE k

\* Variant: the registry entry is never taken out.
remove_from_accounts_list_keeps_entry(k, account) == k

remove_from_accounts_list(k, account) ==
    LET accounts == list_accounts(k)
    IN  IF InSeq(account, accounts)
        THEN [k EXCEPT !.accounts_list = Some(RemoveFirst(accounts, account))]
        ELSE k

\* Variant: the first saved account is not made the default.
save_credentials_no_default(k, credentials, account) ==
    IF account # None
    THEN add_to_accounts_list([k EXCEPT !.oauth[account] = Some(credentials)], account)
    ELSE [k EXCEPT !.oauth_credentials = Some(credentials)]

\* Variant: every saved account becomes the default, not only the first.
save_credentials_always_default(k, credentials, account) ==
    IF account # None
    THEN set_default_account(
             add_to_accounts_list([k EXCEPT !.oauth[account] = Some(credentials)], account),
             account)
    ELSE [k EXCEPT !.oauth_credentials = Some(credentials)]

save_credentials(k, credentials, account) ==
    IF account # None
    THEN LET k1 == [k EXCEPT !.oauth[account] = Some(credentials)]
             k2 == add_to_accounts_list(k1, account)
         IN  IF Len(list_accounts(k2)) = 1
             THEN set_default_account(k2, account)
             ELSE k2
    ELSE [k EXCEPT !.oauth_credentials = Some(credentials)]

load_credentials(k, account) ==
    IF account # None THEN k.oauth[account] ELSE k.oauth_credentials

has_credentials(k, account) ==
    IF account # None THEN k.oauth[account] # Absent
    ELSE k.oauth_credentials # Absent

\* Variant: only the record is deleted; registry and default are not touched.
delete_credentials_record_only(k, account) ==
    IF account # None
    THEN [k EXCEPT !.oauth[account] = Absent]
    ELSE [k EXCEPT !.oauth_credentials = Absent]

\* Variant: the default pointer is left alone when the default is deleted.
delete_credentials_keeps_default(k, account) ==
    IF account # None
    THEN IF k.oauth[account] = Absent
         THEN k
         ELSE remove_from_accounts_list([k EXCEPT !.oauth[account] = Absent], account)
    ELSE [k EXCEPT !.oauth_credentials = Absent]

\* Variant: the default moves to the last remaining account, not the first.
delete_credentials_last_remaining(k, account) ==
    IF account # None
    THEN IF k.oauth[account] = Absent
         THEN k
         ELSE LET k2 == remove_from_accounts_list(
                            [k EXCEPT !.oauth[account] = Absent], account)
                  accounts == list_accounts(k2)
              IN  IF get_default_account(k2) = Some(account)
                  THEN IF accounts # <<>>
                       THEN set_default_account(k2, accounts[Len(accounts)])
                       ELSE [k2 EXCEPT !.default_account = Absent]
                  ELSE k2
    ELSE [k EXCEPT !.oauth_credentials = Absent]

\* Variant: a missing record does not raise, so the registry entry and the
\* default are updated all the same.
delete_credentials_missing_ok(k, account) ==
    IF account # None
    THEN LET k2 == remove_from_accounts_list(
                       [k EXCEPT !.oauth[account] = Absent], account)
             accounts == list_accounts(k2)
         IN  IF get_default_account(k2) = Some(account)
             THEN IF accounts # <<>>
                  THEN set_default_account(k2, accounts[1])
                  ELSE [k2 EXCEPT !.default_account = Absent]
             ELSE k2
    ELSE [k EXCEPT !.oauth_credentials = Absent]

\* keyring.delete_password raises PasswordDeleteError for a missing key; the
\* outer handler swallows it, and everything after the raising call is skipped.
delete_credentials(k, account) ==
    IF account # None
    THEN IF k.oauth[account] = Absent
         THEN k
         ELSE LET k1 == [k EXCEPT !.oauth[account] = Absent]
                  k2 == remove_from_accounts_list(k1, account)
                  default == get_default_account(k2)
              IN  IF default = Some(account)
                  THEN LET accounts == list_accounts(k2)
                       IN  IF accounts # <<>>
                           THEN set_default_account(k2, accounts[1])
                           ELSE [k2 EXCEPT !.default_account = Absent]
                  ELSE k2
    ELSE [k EXCEPT !.oauth_credentials = Absent]

RECURSIVE DeleteRecords(_, _)
DeleteRecords(k, accounts) ==
    IF accounts = <<>> THEN k
    ELSE DeleteRecords([k EXCEPT !.oauth[Head(accounts)] = Absent], Tail(accounts))

\* Variant: a record that is missing aborts the call (no handler in the loop).
RECURSIVE AllStored(_, _)
AllStored(k, accounts) ==
    IF accounts = <<>> THEN TRUE
    ELSE k.oauth[Head(accounts)] # Absent /\ AllStored(k, Tail(accounts))

RECURSIVE DeleteUntilMissing(_, _)
DeleteUntilMissing(k, accounts) ==
    IF accounts = <<>> \/ k.oauth[Head(accounts)] = Absent THEN k
    ELSE DeleteUntilMissing([k EXCEPT !.oauth[Head(accounts)] = Absent], Tail(accounts))

clear_all_accounts_aborts(k) ==
    IF AllStored(k, list_accounts(k))
    THEN [DeleteRecords(k, list_accounts(k)) EXCEPT
             !.accounts_list = Absent, !.default_account = Absent]
    ELSE DeleteUntilMissing(k, list_accounts(k))

clear_all_accounts(k) ==
    LET k1 == DeleteRecords(k, list_accounts(k))
    IN  [k1 EXCEPT !.accounts_list = Absent, !.default_account = Absent]

\* credentials.refresh(Request()) succeeding at instant t: a new access token.
Refreshed(credentials, t) == [credentials EXCEPT !.token = t]

\* The profile call of _get_email_from_credentials is made with the legacy
\* record: the transport refreshes an expired access token in place before
\* sending when the record holds a refresh token, and cannot send otherwise.
ProfileCredentials(credentials, t) ==
    IF Expired(credentials, t) /\ credentials.refresh_token
    THEN Refreshed(credentials, t)
    ELSE credentials

\* Variant: the legacy entry is left in place after it has been migrated.
migrate_legacy_credentials_keeps_legacy(k, t, email) ==
    IF k.oauth_credentials = Absent
    THEN [k |-> k, migrated |-> FALSE]
    ELSE IF k.accounts_list # Absent
    THEN [k |-> [k EXCEPT !.oauth_credentials = Absent], migrated |-> FALSE]
    ELSE IF email = None
    THEN [k |-> k, migrated |-> FALSE]
    ELSE [k |-> set_default_account(
                    save_credentials(k, ProfileCredentials(Get(k.oauth_credentials), t), email),
                    email),
          migrated |-> TRUE]

\* email is what _get_email_from_credentials answers at instant t (None when
\* the profile call fails).  Returns the new keyring and the boolean result.
migrate_legacy_credentials(k, t, email) ==
    IF k.oauth_credentials = Absent
    THEN [k |-> k, migrated |-> FALSE]
    ELSE IF k.accounts_list # Absent
    THEN [k |-> [k EXCEPT !.oauth_credentials = Absent], migrated |-> FALSE]
    ELSE IF email = None
    THEN [k |-> k, migrated |-> FALSE]
    ELSE LET credentials == ProfileCredentials(Get(k.oauth_credentials), t)
             k1 == save_credentials(k, credentials, email)
             k2 == set_default_account(k1, email)
         IN  [k |-> [k2 EXCEPT !.oauth_credentials = Absent], migrated |-> TRUE]

\* ------------------------------------------------------------ results
\* What a call hands back: kind is "ok", "none" (Python None), "exit" (a
\* command ending through typer.Exit) or the name of the exception raised.
NoResult ==
    [kind |-> "none", account |-> None, available |-> <<>>, creds |-> Absent,
     refreshes |-> 0, accounts |-> <<>>, code |-> 0, flag |-> FALSE]

Result(kind, account, available) ==
    [NoResult EXCEPT !.kind = kind, !.account = account, !.available = available]

Ok(account) == Result("ok", account, <<>>)
Nothing == NoResult
Exit(code) == [NoResult EXCEPT !.kind = "exit", !.code = code]

\* --------------------------------------------------------------- auth.py
\* Variant: the default account is consulted before GMAIL_ACCOUNT.
resolve_account_default_first(k, explicit_account, env_account) ==
    LET accounts == list_accounts(k)
        default == get_default_account(k)
    IN  IF explicit_account # None
        THEN IF ~InSeq(explicit_account, accounts)
             THEN Result("AccountNotFoundError", explicit_account, accounts)
             ELSE Ok(explicit_account)
        ELSE IF default # Absent /\ InSeq(Get(default), accounts)
        THEN Ok(Get(default))
        ELSE IF env_account # None
        THEN IF ~InSeq(env_account, accounts)
             THEN Result("AccountNotFoundError", env_account, accounts)
             ELSE Ok(env_account)
        ELSE IF accounts # <<>>
        THEN Ok(accounts[1])
        ELSE Result("NoAccountConfiguredError", None, <<>>)

\* Variant: an unregistered GMAIL_ACCOUNT falls through to the default.
resolve_account_env_falls_through(k, explicit_account, env_account) ==
    LET accounts == list_accounts(k)
        default == get_default_account(k)
    IN  IF explicit_account # None
        THEN IF ~InSeq(explicit_account, accounts)
             THEN Result("AccountNotFoundError", explicit_account, accounts)
             ELSE Ok(explicit_account)
        ELSE IF env_account # None /\ InSeq(env_account, accounts)
        THEN Ok(env_account)
        ELSE IF default # Absent /\ InSeq(Get(default), accounts)
        THEN Ok(Get(default))
        ELSE IF accounts # <<>>
        THEN Ok(accounts[1])
        ELSE Result("NoAccountConfiguredError", None, <<>>)

\* Variant: an empty registry is reported before the overrides are looked at.
resolve_account_empty_first(k, explicit_account, env_account) ==
    LET accounts == list_accounts(k)
        default == get_default_account(k)
    IN  IF accounts = <<>>
        THEN Result("NoAccountConfiguredError", None, <<>>)
        ELSE IF explicit_account # None
        THEN IF ~InSeq(explicit_account, accounts)
             THEN Result("AccountNotFoundError", explicit_account, accounts)
             ELSE Ok(explicit_account)
        ELSE IF env_account # None
        THEN IF ~InSeq(env_account, accounts)
             THEN Result("AccountNotFoundError", env_account, accounts)
             ELSE Ok(env_account)
        ELSE IF default # Absent /\ InSeq(Get(default), accounts)
        THEN Ok(Get(default))
        ELSE Ok(accounts[1])

resolve_account(k, explicit_account, env_account) ==
    LET accounts == list_accounts(k)
        default == get_default_account(k)
    IN  IF explicit_account # None
        THEN IF ~InSeq(explicit_account, accounts)
             THEN Result("AccountNotFoundError", explicit_account, accounts)
             ELSE Ok(explicit_account)
        ELSE IF env_account # None
        THEN IF ~InSeq(env_account, accounts)
             THEN Result("AccountNotFoundError", env_account, accounts)
             ELSE Ok(env_account)
        ELSE IF default # Absent /\ InSeq(Get(default), accounts)
        THEN Ok(Get(default))
        ELSE IF accounts # <<>>
        THEN Ok(accounts[1])
        ELSE Result("NoAccountConfiguredError", None, <<>>)

\* Variant: a record with a refresh token is refreshed whether or not its
\* access token is expired.
get_credentials_always_refreshes(k, t, account, env_account, email, refresh_ok) ==
    LET k0 == migrate_legacy_credentials(k, t, email).k
        r == resolve_account(k0, None, env_account)
        acct == IF account # None THEN account
                ELSE IF r.kind = "ok" THEN r.account ELSE None
    IN  IF acct = None
        THEN [k |-> k0, ret |-> Nothing]
        ELSE LET credentials == load_credentials(k0, acct)
             IN  IF credentials = Absent
                 THEN [k |-> k0, ret |-> [Nothing EXCEPT !.account = acct]]
                 ELSE IF Get(credentials).refresh_token
                 THEN IF refresh_ok
                      THEN [k |-> save_credentials(k0, Refreshed(Get(credentials), t), acct),
                            ret |-> [Ok(acct) EXCEPT
                                        !.creds = Some(Refreshed(Get(credentials), t)),
                                        !.refreshes = 1]]
                      ELSE [k |-> delete_credentials(k0, acct),
                            ret |-> [Nothing EXCEPT !.account = acct, !.refreshes = 1]]
                 ELSE [k |-> k0, ret |-> [Ok(acct) EXCEPT !.creds = credentials]]

\* Variant: the refreshed record is returned but not written to the keyring.
get_credentials_refresh_not_saved(k, t, account, env_account, email, refresh_ok) ==
    LET k0 == migrate_legacy_credentials(k, t, email).k
        r == resolve_account(k0, None, env_account)
        acct == IF account # None THEN account
                ELSE IF r.kind = "ok" THEN r.account ELSE None
    IN  IF acct = None
        THEN [k |-> k0, ret |-> Nothing]
        ELSE LET credentials == load_credentials(k0, acct)
             IN  IF credentials = Absent
                 THEN [k |-> k0, ret |-> [Nothing EXCEPT !.account = acct]]
                 ELSE IF Expired(Get(credentials), t) /\ Get(credentials).refresh_token
                 THEN IF refresh_ok
                      THEN [k |-> k0,
                            ret |-> [Ok(acct) EXCEPT
                                        !.creds = Some(Refreshed(Get(credentials), t)),
                                        !.refreshes = 1]]
                      ELSE [k |-> delete_credentials(k0, acct),
                            ret |-> [Nothing EXCEPT !.account = acct, !.refreshes = 1]]
                 ELSE [k |-> k0, ret |-> [Ok(acct) EXCEPT !.creds = credentials]]

\* Variant: a failed refresh returns None but leaves the record stored.
get_credentials_keeps_failed(k, t, account, env_account, email, refresh_ok) ==
    LET k0 == migrate_legacy_credentials(k, t, email).k
        r == resolve_account(k0, None, env_account)
        acct == IF account # None THEN account
                ELSE IF r.kind = "ok" THEN r.account ELSE None
    IN  IF acct = None
        THEN [k |-> k0, ret |-> Nothing]
        ELSE LET credentials == load_credentials(k0, acct)
             IN  IF credentials = Absent
                 THEN [k |-> k0, ret |-> [Nothing EXCEPT !.account = acct]]
                 ELSE IF Expired(Get(credentials), t) /\ Get(credentials).refresh_token
                 THEN IF refresh_ok
                      THEN [k |-> save_credentials(k0, Refreshed(Get(credentials), t), acct),
                            ret |-> [Ok(acct) EXCEPT
                                        !.creds = Some(Refreshed(Get(credentials), t)),
                                        !.refreshes = 1]]
                      ELSE [k |-> k0,
                            ret |-> [Nothing EXCEPT !.account = acct, !.refreshes = 1]]
                 ELSE [k |-> k0, ret |-> [Ok(acct) EXCEPT !.creds = credentials]]

\* t is the clock, env_account is GMAIL_ACCOUNT, email the answer of the
\* profile call made by the migration, refresh_ok whether the token endpoint
\* accepts the refresh.
get_credentials(k, t, account, env_account, email, refresh_ok) ==
    LET k0 == migrate_legacy_credentials(k, t, email).k
        r == resolve_account(k0, None, env_account)
        acct == IF account # None THEN account
                ELSE IF r.kind = "ok" THEN r.account ELSE None
    IN  IF acct = None
        THEN [k |-> k0, ret |-> Nothing]
        ELSE LET credentials == load_credentials(k0, acct)
             IN  IF credentials = Absent
                 THEN [k |-> k0, ret |-> [Nothing EXCEPT !.account = acct]]
                 ELSE IF Expired(Get(credentials), t) /\ Get(credentials).refresh_token
                 THEN IF refresh_ok
                      THEN [k |-> save_credentials(k0, Refreshed(Get(credentials), t), acct),
                            ret |-> [Ok(acct) EXCEPT
                                        !.creds = Some(Refreshed(Get(credentials), t)),
                                        !.refreshes = 1]]
                      ELSE [k |-> delete_credentials(k0, acct),
                            ret |-> [Nothing EXCEPT !.account = acct, !.refreshes = 1]]
                 ELSE [k |-> k0, ret |-> [Ok(acct) EXCEPT !.creds = credentials]]

\* google-auth's Credentials.valid: a token is there and it is not expired.
Valid(credentials, t) == ~Expired(credentials, t)

\* Returns the new keyring (get_credentials may write) and the boolean in
\* ret.flag; ret.account is the account whose credentials were asked for.
is_authenticated(k, t, account, email, refresh_ok) ==
    IF account # None
    THEN LET g == get_credentials(k, t, account, None, email, refresh_ok)
         IN  [k |-> g.k,
              ret |-> [Ok(account) EXCEPT
                          !.refreshes = g.ret.refreshes,
                          !.flag = (g.ret.kind = "ok" /\ Valid(Get(g.ret.creds), t))]]
    ELSE LET accounts == list_accounts(k)
         IN  IF accounts = <<>>
             THEN [k |-> k, ret |-> Ok(None)]
             ELSE LET g == get_credentials(k, t, accounts[1], None, email, refresh_ok)
                  IN  [k |-> g.k,
                       ret |-> [Ok(accounts[1]) EXCEPT
                                   !.refreshes = g.ret.refreshes,
                                   !.flag = (g.ret.kind = "ok" /\ Valid(Get(g.ret.creds), t))]]

logout(k, account, all_accounts, env_account) ==
    IF all_accounts
    THEN [k |-> clear_all_accounts(k),
          ret |-> [Ok(None) EXCEPT !.accounts = list_accounts(k)]]
    ELSE IF account # None
    THEN [k |-> delete_credentials(k, account),
          ret |-> [Ok(account) EXCEPT !.accounts = <<account>>]]
    ELSE LET r == resolve_account(k, None, env_account)
         IN  IF r.kind = "ok"
             THEN [k |-> delete_credentials(k, r.account),
                   ret |-> [Ok(r.account) EXCEPT !.accounts = <<r.account>>]]
             ELSE [k |-> k, ret |-> Ok(None)]

\* ------------------------------------------------------------ cli/auth.py
\* The credentials the consent flow hands back at instant t (prompt="consent":
\* a fresh access token and a refresh token).
FlowCredentials(t) == [token |-> t, refresh_token |-> TRUE]

\* email is the identity the OAuth flow reports, None when the flow raises;
\* confirm is the user's answer to "add a further account?".
login(k, t, set_default, confirm, email) ==
    LET accounts == list_accounts(k)
    IN  IF accounts # <<>> /\ has_credentials(k, accounts[1]) /\ ~confirm
        THEN [k |-> k, ret |-> Exit(0)]
        ELSE IF email = None
        THEN [k |-> k, ret |-> Exit(1)]
        ELSE LET k1 == save_credentials(k, FlowCredentials(t), email)
                 was_first_account == Len(accounts) = 0
             IN  [k |-> IF set_default /\ ~was_first_account
                        THEN set_default_account(k1, email)
                        ELSE k1,
                  ret |-> [Ok(email) EXCEPT !.flag = (was_first_account \/ set_default)]]

\* Variant: the command sets the pointer without looking at the registry.
set_default_command_unchecked(k, email) ==
    [k |-> set_default_account(k, email), ret |-> Ok(email)]

set_default_command(k, email) ==
    IF ~InSeq(email, list_accounts(k))
    THEN [k |-> k, ret |-> Exit(1)]
    ELSE [k |-> set_default_account(k, email), ret |-> Ok(email)]

\* ------------------------------------------------------------ services/gmail.py
MAX_RETRIES == 3
BASE_DELAY == 1

\* What one request.execute() does: it returns the response, or raises
\* RefreshError, or raises HttpError with the status the server answered.
HttpStatuses == {429, 400, 403, 404, 500}
Response == [kind |-> "response", status |-> 200]
RefreshError == [kind |-> "RefreshError", status |-> 0]
HttpError(status) == [kind |-> "HttpError", status |-> status]
Outcomes == {Response, RefreshError} \cup {HttpError(st) : st \in HttpStatuses}

\* What the executor hands back: the response, or the exception it raises.
NotReturned == [kind |-> "none", account |-> None, status |-> 0]
Returned(outcome) == [kind |-> outcome.kind, account |-> None, status |-> outcome.status]
TokenExpiredError(account) == [kind |-> "TokenExpiredError", account |-> account, status |-> 0]

\* The executor's frame: where it is, the account it was given, the loop
\* variable, and what happened so far (the outcome of every execution of the
\* request and every delay slept, in order).
NotExecuting ==
    [pc |-> "idle", account |-> None, attempt |-> 0,
     outcomes |-> <<>>, sleeps |-> <<>>, result |-> NotReturned]

Finished(e, outcome, result) ==
    [e EXCEPT !.pc = "done", !.outcomes = Append(e.outcomes, outcome), !.result = result]

\* Variant: the same delay before every retry.
Delay_constant(attempt) == BASE_DELAY

Delay(attempt) == BASE_DELAY * (2 ^ attempt)

\* Variant: the loop runs one more round before the final attempt.
loop_iteration_extra_round(e, outcome) ==
    IF outcome.kind = "response"
    THEN Finished(e, outcome, Returned(outcome))
    ELSE IF outcome.kind = "RefreshError"
    THEN Finished(e, outcome, TokenExpiredError(e.account))
    ELSE IF outcome.status = 429
    THEN [e EXCEPT !.outcomes = Append(e.outcomes, outcome),
                   !.sleeps = Append(e.sleeps, Delay(e.attempt)),
                   !.attempt = e.attempt + 1,
                   !.pc = IF e.attempt + 1 < MAX_RETRIES + 1 THEN "loop" ELSE "final"]
    ELSE Finished(e, outcome, Returned(outcome))

\* Variant: server errors (5xx) are slept on and retried like status 429.
loop_iteration_retries_server_errors(e, outcome) ==
    IF outcome.kind = "response"
    THEN Finished(e, outcome, Returned(outcome))
    ELSE IF outcome.kind = "RefreshError"
    THEN Finished(e, outcome, TokenExpiredError(e.account))
    ELSE IF outcome.status = 429 \/ outcome.status >= 500
    THEN [e EXCEPT !.outcomes = Append(e.outcomes, outcome),
                   !.sleeps = Append(e.sleeps, Delay(e.attempt)),
                   !.attempt = e.attempt + 1,
                   !.pc = IF e.attempt + 1 < MAX_RETRIES THEN "loop" ELSE "final"]
    ELSE Finished(e, outcome, Returned(outcome))

\* Variant: the response of the loop's try is not returned and the loop
\* goes on to the next round.
loop_iteration_drops_response(e, outcome) ==
    IF outcome.kind = "RefreshError"
    THEN Finished(e, outcome, TokenExpiredError(e.account))
    ELSE IF outcome.kind = "response" \/ outcome.status = 429
    THEN [e EXCEPT !.outcomes = Append(e.outcomes, outcome),
                   !.sleeps = IF outcome.kind = "response" THEN e.sleeps
                              ELSE Append(e.sleeps, Delay(e.attempt)),
                   !.attempt = e.attempt + 1,
                   !.pc = IF e.attempt + 1 < MAX_RETRIES THEN "loop" ELSE "final"]
    ELSE Finished(e, outcome, Returned(outcome))

\* One iteration of the for loop: the request is executed; a response is
\* returned, RefreshError becomes TokenExpiredError, status 429 is slept on
\* and the loop goes on (to the final attempt after the last iteration), any
\* other HttpError is raised again.
loop_iteration(e, outcome) ==
    IF outcome.kind = "response"
    THEN Finished(e, outcome, Returned(outcome))
    ELSE IF outcome.kind = "RefreshError"
    THEN Finished(e, outcome, TokenExpiredError(e.account))
    ELSE IF outcome.status = 429
    THEN [e EXCEPT !.outcomes = Append(e.outcomes, outcome),
                   !.sleeps = Append(e.sleeps, Delay(e.attempt)),
                   !.attempt = e.attempt + 1,
                   !.pc = IF e.attempt + 1 < MAX_RETRIES THEN "loop" ELSE "final"]
    ELSE Finished(e, outcome, Returned(outcome))

\* Variant: a rate-limit answer to the attempt after the loop is swallowed
\* and the call returns nothing.
final_attempt_swallows_rate_limit(e, outcome) ==
    IF outcome.kind = "RefreshError"
    THEN Finished(e, outcome, TokenExpiredError(e.account))
    ELSE IF outcome.kind = "HttpError" /\ outcome.status = 429
    THEN Finished(e, outcome, NotReturned)
    ELSE Finished(e, outcome, Returned(outcome))

\* Variant: the attempt after the loop catches nothing.
final_attempt_catches_nothing(e, outcome) ==
    Finished(e, outcome, Returned(outcome))

\* The attempt after the loop: only RefreshError is caught.
final_attempt(e, outcome) ==
    IF outcome.kind = "RefreshError"
    THEN Finished(e, outcome, TokenExpiredError(e.account))
    ELSE Finished(e, outcome, Returned(outcome))

\* ------------------------------------------------- a command behind the gate
\* What the one remote call of the command ends in, as _execute_with_retry
\* hands it on: the response, TokenExpiredError or an HttpError.
RemoteResults == {"response", "TokenExpiredError", "HttpError"}

\* search_command with its --account option (None when not given):
\* search_emails builds the service from get_credentials(account), which
\* resolves the account itself when none is given, and runs the request
\* through _execute_with_retry(request, account=account).  ret.account is the
\* account whose credentials the call is made with, ret.flag whether the
\* remote call was made.
search_command(k, t, account, env_account, refresh_ok, remote) ==
    LET g == get_credentials(k, t, account, env_account, None, refresh_ok)
    IN  IF g.ret.kind # "ok"
        THEN [k |-> g.k, ret |-> [Result("Exception", g.ret.account, <<>>) EXCEPT
                                     !.refreshes = g.ret.refreshes]]
        ELSE [k |-> g.k,
              ret |-> [Result(IF remote = "response" THEN "ok" ELSE remote,
                              g.ret.account, <<>>) EXCEPT
                          !.refreshes = g.ret.refreshes, !.flag = TRUE]]

\* The require_auth wrapper around it: the gate, the command, and the handler
\* of TokenExpiredError, which deletes the credentials of the account the
\* exception carries (the account _execute_with_retry was given).
\* (The gate's and the command's results are bound as values, each computed
\* once.)
Only(S) == CHOOSE x \in S : TRUE

require_auth(k, t, account, env_account, gate_refresh_ok, refresh_ok, remote) ==
    Only({ IF ~gate.ret.flag
           THEN [k |-> gate.k, ret |-> [Exit(1) EXCEPT !.account = account]]
           ELSE Only({ IF c.ret.kind = "TokenExpiredError"
                       THEN [k |-> IF TokenExpiredError(account).account # None
                                   THEN delete_credentials(c.k, TokenExpiredError(account).account)
                                   ELSE c.k,
                             ret |-> [Exit(1) EXCEPT !.account = c.ret.account, !.flag = TRUE]]
                       ELSE c
                       : c \in {search_command(gate.k, t, account, env_account,
                                               refresh_ok, remote)} })
           : gate \in {is_authenticated(k, t, None, None, gate_refresh_ok)} })

\* ------------------------------------------------------------ cli/mark.py
MessageIds == 1..2
IdLists == UNION {[1..n -> MessageIds] : n \in 1..MaxIds}

\* What mark_fn(msg_id, account=account) does for one message: it returns,
\* raises MessageNotFoundError, or raises any other Exception.
MarkOutcomes == {"success", "MessageNotFoundError", "Exception"}

\* The frame of one invocation: the arguments, whether the gate let it
\* through, the resolved account, the loop's locals and how it ended.
NotMarking ==
    [pc |-> "idle", message_ids |-> <<>>, read |-> FALSE, unread |-> FALSE,
     authenticated |-> FALSE, account |-> None,
     results |-> <<>>, success_count |-> 0, error_count |-> 0,
     kind |-> "none", code |-> 0]

\* How the process ends: typer.Exit(code), or an exception nobody catches,
\* which ends the process with status 1.
MarkEnds(m, kind) == [m EXCEPT !.pc = "done", !.kind = kind, !.code = 1]

\* cli/auth.py 50-62 and mark.py 67-85: the gate, the validation of the
\* options, the resolution of the account and the loop's initial locals.
mark_command(k, t, message_ids, read, unread, account, env_account, gate_refresh_ok) ==
    Only({ LET m == [NotMarking EXCEPT !.message_ids = message_ids, !.read = read,
                                       !.unread = unread,
                                       !.authenticated = gate.ret.flag]
               r == resolve_account(gate.k, account, env_account)
           IN  [k |-> gate.k,
                refreshes |-> gate.ret.refreshes,
                mark |-> IF ~gate.ret.flag THEN MarkEnds(m, "exit")
                         ELSE IF read = unread THEN MarkEnds(m, "exit")
                         ELSE IF r.kind # "ok" THEN MarkEnds(m, r.kind)
                         ELSE [m EXCEPT !.pc = "loop", !.account = r.account]]
           : gate \in {is_authenticated(k, t, None, None, gate_refresh_ok)} })

\* Variant: the first failure ends the command.
mark_iteration_stops_on_failure(m, outcome) ==
    IF outcome = "success"
    THEN [m EXCEPT !.success_count = @ + 1,
                   !.results = Append(@, [id |-> m.message_ids[Len(m.results) + 1],
                                          status |-> "success"])]
    ELSE MarkEnds([m EXCEPT !.error_count = @ + 1,
                            !.results = Append(@, [id |-> m.message_ids[Len(m.results) + 1],
                                                   status |-> "error"])], "exit")

\* mark.py 87-103: one round of the loop, for the next message ID.
mark_iteration(m, outcome) ==
    LET msg_id == m.message_ids[Len(m.results) + 1]
    IN  IF outcome = "success"
        THEN [m EXCEPT !.success_count = @ + 1,
                       !.results = Append(@, [id |-> msg_id, status |-> "success"])]
        ELSE IF outcome = "MessageNotFoundError"
        THEN [m EXCEPT !.error_count = @ + 1,
                       !.results = Append(@, [id |-> msg_id, status |-> "not_found"])]
        ELSE [m EXCEPT !.error_count = @ + 1,
                       !.results = Append(@, [id |-> msg_id, status |-> "error"])]

\* mark.py 105-120: the summary is printed, then the exit status is chosen.
mark_exit(m) ==
    IF m.error_count > 0
    THEN MarkEnds(m, "exit")
    ELSE [m EXCEPT !.pc = "done", !.kind = "ok", !.code = 0]

\* ------------------------------------------------------------------ state
EmptyKeyring ==
    [oauth |-> [a \in Accounts |-> Absent],
     accounts_list |-> Absent,
     default_account |-> Absent,
     oauth_credentials |-> Absent]

save_legacy(k, legacy) ==
    IF legacy = Absent THEN k ELSE save_credentials(k, Get(legacy), None)

Call(op, account, env, flag) ==
    [op |-> op, account |-> account, env |-> env, flag |-> flag]

NoLocals == [account |-> None, accounts |-> <<>>, creds |-> Absent]

\* No call is in progress or just completed.
NoCall == Call("none", None, None, FALSE)
Idle == call = NoCall

\* The store is empty, or holds what the single-account version left behind:
\* one record under the legacy key (written through save_credentials without
\* an account), with or without a refresh token.
Init ==
    /\ now = 0
    /\ \E legacy \in {Absent} \cup {Some(c) : c \in Credentials(0)} :
           keyring = save_legacy(EmptyKeyring, legacy)
    /\ pre = keyring
    /\ call = NoCall
    /\ ret = Nothing
    /\ pc = "idle"
    /\ loc = NoLocals
    /\ exec = NotExecuting
    /\ mark = NotMarking

\* One completed call of an invocation: what the keyring was when it started,
\* the call and its result.  The invocation then ends (Return) before the
\* next one starts.
Completed(c, r) ==
    /\ Idle
    /\ pre' = keyring
    /\ call' = c
    /\ ret' = r
    /\ UNCHANGED <<now, pc, loc, exec, mark>>

SaveCredentials(account, credentials) ==
    /\ keyring' = save_credentials(keyring, credentials, account)
    /\ Completed(Call("save_credentials", account, None, FALSE), Nothing)

DeleteCredentials(account) ==
    /\ keyring' = delete_credentials(keyring, account)
    /\ Completed(Call("delete_credentials", account, None, FALSE), Nothing)

ClearAllAccounts ==
    /\ keyring' = clear_all_accounts(keyring)
    /\ Completed(Call("clear_all_accounts", None, None, FALSE), Nothing)

\* The profile call is made only when a legacy entry is to be migrated.
ProfileCalled(k) == k.oauth_credentials # Absent /\ k.accounts_list = Absent

\* It can answer only when made with a token that is valid or can be refreshed.
ProfileAnswers(k, t) ==
    /\ ProfileCalled(k)
    /\ ~Expired(Get(k.oauth_credentials), t) \/ Get(k.oauth_credentials).refresh_token

MigrateLegacyCredentials(email) ==
    /\ email # None => ProfileAnswers(keyring, now)
    /\ keyring' = migrate_legacy_credentials(keyring, now, email).k
    /\ Completed(Call("migrate_legacy_credentials", email, None, FALSE),
                 [Nothing EXCEPT !.kind = "ok",
                      !.flag = migrate_legacy_credentials(keyring, now, email).migrated])

ResolveAccount(explicit_account, env_account) ==
    /\ keyring' = keyring
    /\ Completed(Call("resolve_account", explicit_account, env_account, FALSE),
                 resolve_account(keyring, explicit_account, env_account))

\* GMAIL_ACCOUNT is read only when no account is given, and the token endpoint
\* answers only when it is called; the call records whether it accepts.
GetCredentials(account, env_account, email, refresh_ok) ==
    /\ account # None => env_account = None
    /\ email # None => ProfileAnswers(keyring, now)
    /\ ~refresh_ok =>
           get_credentials(keyring, now, account, env_account, email, refresh_ok).ret.refreshes = 1
    /\ keyring' = get_credentials(keyring, now, account, env_account, email, refresh_ok).k
    /\ Completed(Call("get_credentials", account, env_account, refresh_ok),
                 get_credentials(keyring, now, account, env_account, email, refresh_ok).ret)

IsAuthenticated(account, email, refresh_ok) ==
    /\ email # None => ProfileAnswers(keyring, now)
    /\ ~refresh_ok => is_authenticated(keyring, now, account, email, refresh_ok).ret.refreshes = 1
    /\ keyring' = is_authenticated(keyring, now, account, email, refresh_ok).k
    /\ Completed(Call("is_authenticated", account, None, refresh_ok),
                 is_authenticated(keyring, now, account, email, refresh_ok).ret)

\* One invocation of the guarded command.  GMAIL_ACCOUNT is read only when
\* --account is not given; the remote side answers only when it is called,
\* and the call records whether it answered with TokenExpiredError.
GuardedCommand(account, env_account, gate_refresh_ok, refresh_ok, remote) ==
    /\ account # None => env_account = None
    /\ \E r \in {require_auth(keyring, now, account, env_account,
                                gate_refresh_ok, refresh_ok, remote)} :
           /\ remote # "response" =>
                  r.ret.flag /\ r.ret.kind \in {"exit", "HttpError"}
           /\ keyring' = r.k
           /\ Completed(Call("search_command", account, env_account,
                              remote = "TokenExpiredError"), r.ret)

Logout(account, all_accounts, env_account) ==
    /\ (account # None \/ all_accounts) => env_account = None
    /\ all_accounts => account = None
    /\ keyring' = logout(keyring, account, all_accounts, env_account).k
    /\ Completed(Call("logout", account, env_account, all_accounts),
                 logout(keyring, account, all_accounts, env_account).ret)

Login(set_default, confirm, email) ==
    /\ keyring' = login(keyring, now, set_default, confirm, email).k
    /\ Completed(Call("login", email, None, set_default),
                 login(keyring, now, set_default, confirm, email).ret)

SetDefaultCommand(email) ==
    /\ keyring' = set_default_command(keyring, email).k
    /\ Completed(Call("set_default", email, None, FALSE),
                 set_default_command(keyring, email).ret)

\* The invocation that made the last call ends: its result is gone.
Return ==
    /\ ~Idle
    /\ call' = NoCall
    /\ ret' = Nothing
    /\ pre' = keyring
    /\ UNCHANGED <<now, keyring, pc, loc, exec, mark>>

\* Time passes: tokens issued TokenLifetime ago are expired from now on.
Tick ==
    /\ Idle
    /\ now < MaxTime
    /\ now' = now + 1
    /\ UNCHANGED <<keyring, pre, call, ret, pc, loc, exec, mark>>

\* ------------------------------------------------- a concurrent invocation
\* A second CLI invocation runs get_credentials(account) on an expired record
\* whose refresh succeeds, one keyring access at a time; the store is not
\* locked, so the calls above may run between any two of its accesses.
Step ==
    /\ Idle
    /\ pre' = keyring'
    /\ UNCHANGED <<now, call, ret, exec, mark>>

\* auth.py 151-168: nothing to migrate, the record is loaded and refreshed.
SlowRefresh(account) ==
    /\ pc = "idle"
    /\ keyring.oauth_credentials = Absent
    /\ load_credentials(keyring, account) # Absent
    /\ Expired(Get(load_credentials(keyring, account)), now)
    /\ Get(load_credentials(keyring, account)).refresh_token
    /\ pc' = "set_password"
    /\ loc' = [account |-> account, accounts |-> <<>>,
               creds |-> Some(Refreshed(Get(load_credentials(keyring, account)), now))]
    /\ UNCHANGED keyring
    /\ Step

\* credentials.py 103
SlowSetPassword ==
    /\ pc = "set_password"
    /\ keyring' = [keyring EXCEPT !.oauth[loc.account] = loc.creds]
    /\ pc' = "list_accounts"
    /\ UNCHANGED loc
    /\ Step

\* credentials.py 66
SlowListAccounts ==
    /\ pc = "list_accounts"
    /\ loc' = [loc EXCEPT !.accounts = list_accounts(keyring)]
    /\ pc' = "append"
    /\ UNCHANGED keyring
    /\ Step

\* credentials.py 67-69
SlowAppend ==
    /\ pc = "append"
    /\ keyring' = IF ~InSeq(loc.account, loc.accounts)
                  THEN [keyring EXCEPT
                           !.accounts_list = Some(Append(loc.accounts, loc.account))]
                  ELSE keyring
    /\ pc' = "first_account"
    /\ UNCHANGED loc
    /\ Step

\* credentials.py 107
SlowFirstAccount ==
    /\ pc = "first_account"
    /\ pc' = IF Len(list_accounts(keyring)) = 1 THEN "set_default" ELSE "idle"
    /\ loc' = IF Len(list_accounts(keyring)) = 1 THEN loc ELSE NoLocals
    /\ UNCHANGED keyring
    /\ Step

\* credentials.py 108
SlowSetDefault ==
    /\ pc = "set_default"
    /\ keyring' = set_default_account(keyring, loc.account)
    /\ pc' = "idle"
    /\ loc' = NoLocals
    /\ Step

\* ------------------------------------------------------ the retry executor
\* A service function calls _execute_with_retry(request, account).
ExecuteWithRetry(account) ==
    /\ exec.pc = "idle"
    /\ exec' = [NotExecuting EXCEPT !.pc = "loop", !.account = account]
    /\ UNCHANGED <<now, keyring, pre, call, ret, pc, loc, mark>>

\* gmail.py 69-79
LoopIteration(outcome) ==
    /\ exec.pc = "loop"
    /\ exec' = loop_iteration(exec, outcome)
    /\ UNCHANGED <<now, keyring, pre, call, ret, pc, loc, mark>>

\* gmail.py 80-84
FinalAttempt(outcome) ==
    /\ exec.pc = "final"
    /\ exec' = final_attempt(exec, outcome)
    /\ UNCHANGED <<now, keyring, pre, call, ret, pc, loc, mark>>

\* The caller has the response or the exception; the frame is gone.
ExecutorReturn ==
    /\ exec.pc = "done"
    /\ exec' = NotExecuting
    /\ UNCHANGED <<now, keyring, pre, call, ret, pc, loc, mark>>

\* ------------------------------------------------------- the mark command
\* `gmail mark ID... [--read] [--unread] [--account A]` starts.  GMAIL_ACCOUNT
\* is read only when --account is not given, and the token endpoint answers
\* only when the gate calls it.
MarkCommand(message_ids, read, unread, account, env_account, gate_refresh_ok) ==
    /\ mark.pc = "idle"
    /\ Idle
    /\ account # None => env_account = None
    /\ \E r \in {mark_command(keyring, now, message_ids, read, unread, account,
                                env_account, gate_refresh_ok)} :
           /\ ~gate_refresh_ok => r.refreshes = 1
           /\ keyring' = r.k
           /\ pre' = r.k
           /\ mark' = r.mark
    /\ UNCHANGED <<now, call, ret, pc, loc, exec>>

\* mark.py 87-103
MarkIteration(outcome) ==
    /\ mark.pc = "loop"
    /\ Len(mark.results) < Len(mark.message_ids)
    /\ mark' = mark_iteration(mark, outcome)
    /\ UNCHANGED <<now, keyring, pre, call, ret, pc, loc, exec>>

\* mark.py 105-120
MarkExit ==
    /\ mark.pc = "loop"
    /\ Len(mark.results) = Len(mark.message_ids)
    /\ mark' = mark_exit(mark)
    /\ UNCHANGED <<now, keyring, pre, call, ret, pc, loc, exec>>

\* The process is gone.
MarkReturn ==
    /\ mark.pc = "done"
    /\ mark' = NotMarking
    /\ UNCHANGED <<now, keyring, pre, call, ret, pc, loc, exec>>

\* ---------------------------------------------------------- specifications
\* Invocations run one after the other.
Next ==
    \/ \E a \in Accounts : SaveCredentials(a, FlowCredentials(now))
    \/ \E a \in Accounts : DeleteCredentials(a)
    \/ ClearAllAccounts
    \/ \E e \in AccountOrNone : MigrateLegacyCredentials(e)
    \/ \E e \in AccountOrNone, v \in AccountOrNone : ResolveAccount(e, v)
    \/ \E a \in AccountOrNone, v \in AccountOrNone, e \in AccountOrNone, ok \in BOOLEAN :
           GetCredentials(a, v, e, ok)
    \/ \E a \in AccountOrNone, all \in BOOLEAN, v \in AccountOrNone : Logout(a, all, v)
    \/ \E d \in BOOLEAN, c \in BOOLEAN, e \in AccountOrNone : Login(d, c, e)
    \/ \E e \in Accounts : SetDefaultCommand(e)
    \/ Tick
    \/ Return

Spec == Init /\ [][Next]_vars

\* Store calls of one invocation interleave with the accesses of another.
NextRace ==
    \/ \E a \in Accounts : SaveCredentials(a, FlowCredentials(now))
    \/ \E a \in Accounts : DeleteCredentials(a)
    \/ ClearAllAccounts
    \/ \E e \in AccountOrNone, v \in AccountOrNone : ResolveAccount(e, v)
    \/ Tick
    \/ Return
    \/ \E a \in Accounts : SlowRefresh(a)
    \/ SlowSetPassword
    \/ SlowListAccounts
    \/ SlowAppend
    \/ SlowFirstAccount
    \/ SlowSetDefault

SpecRace == Init /\ [][NextRace]_vars
\* Only saves (and the clock): the registry is never shrunk.
NextSave ==
    \/ \E a \in Accounts : SaveCredentials(a, FlowCredentials(now))
    \/ Tick
    \/ Return

SpecSave == Init /\ [][NextSave]_vars

\* Accounts are added, the default is chosen, time passes and the
\* authentication check is asked.
NextAuth ==
    \/ \E a \in Accounts : SaveCredentials(a, FlowCredentials(now))
    \/ \E e \in Accounts : SetDefaultCommand(e)
    \/ \E a \in AccountOrNone, e \in AccountOrNone, ok \in BOOLEAN : IsAuthenticated(a, e, ok)
    \/ Tick
    \/ Return

SpecAuth == Init /\ [][NextAuth]_vars

\* Accounts are added, the default is chosen, time passes and a command
\* behind the gate is run.
NextGate ==
    \/ \E a \in Accounts : SaveCredentials(a, FlowCredentials(now))
    \/ \E e \in Accounts : SetDefaultCommand(e)
    \/ \E a \in AccountOrNone, v \in AccountOrNone, g \in BOOLEAN, ok \in BOOLEAN,
           r \in RemoteResults : GuardedCommand(a, v, g, ok, r)
    \/ Tick
    \/ Return

SpecGate == Init /\ [][NextGate]_vars

\* Accounts are added, time passes and the mark command is run, one
\* invocation after the other.
NextMark ==
    \/ mark.pc = "idle" /\ \E a \in Accounts : SaveCredentials(a, FlowCredentials(now))
    \/ mark.pc = "idle" /\ Tick
    \/ Return
    \/ \E ids \in IdLists, rd \in BOOLEAN, un \in BOOLEAN, a \in AccountOrNone,
          v \in AccountOrNone, g \in BOOLEAN : MarkCommand(ids, rd, un, a, v, g)
    \/ \E o \in MarkOutcomes : MarkIteration(o)
    \/ MarkExit
    \/ MarkReturn

SpecMark == Init /\ [][NextMark]_vars

\* Calls of the retry executor, the remote side answering as it likes.
ExecutorStep ==
    \/ \E o \in Outcomes : LoopIteration(o)
    \/ \E o \in Outcomes : FinalAttempt(o)

NextExec ==
    \/ \E a \in AccountOrNone : ExecuteWithRetry(a)
    \/ ExecutorStep
    \/ ExecutorReturn

\* request.execute() always comes back (with a response or an exception) and
\* the sleep ends, so a call in progress takes its next step.
SpecExec == Init /\ [][NextExec]_vars /\ WF_vars(ExecutorStep)

\* ------------------------------------------------------------------ claims
Registry == list_accounts(keyring)
RegistryBefore == list_accounts(pre)
Without(s, a) == SelectSeq(s, LAMBDA x : x # a)
NoDuplicates(s) == \A i, j \in 1..Len(s) : s[i] = s[j] => i = j

\* C1: in every state reached by completed store calls, token lifecycle
\* calls, the migration and the auth commands, the default pointer is unset
\* or names an identity that is in the registry.
C1_DefaultRegistered ==
    keyring.default_account # Absent => InSeq(Get(keyring.default_account), Registry)

\* C1 witness: a failed refresh has just deleted the default account while
\* others were registered, and the pointer moved to a registered one.
C1_Witness ==
    /\ call.op = "get_credentials"
    /\ ret.kind = "none" /\ ret.refreshes = 1
    /\ pre.default_account = Some(ret.account)
    /\ Len(RegistryBefore) = 3
    /\ keyring.default_account # Absent
    /\ keyring.default_account # pre.default_account

\* C2: with saves only, a save of an identity the registry holds leaves the
\* registry as it is, and a save of a new one appends it: the registry lists
\* the identities in the order of their first save, each once.
C2_FirstSaveOrder ==
    /\ NoDuplicates(Registry)
    /\ call.op = "save_credentials" =>
           Registry = IF InSeq(call.account, RegistryBefore)
                      THEN RegistryBefore
                      ELSE Append(RegistryBefore, call.account)

\* C2 witness: identity 2, saved first, is saved again after 3 and 1; the
\* registry still reads 2, 3, 1.
C2_Witness ==
    /\ call.op = "save_credentials" /\ call.account = 2
    /\ RegistryBefore = <<2, 3, 1>>
    /\ Registry = <<2, 3, 1>>

\* C3: a save on an empty registry makes the saved identity the default; a
\* save while the registry is non-empty and a default is set leaves the
\* default pointer as it was.
C3_SaveDefault ==
    call.op = "save_credentials" =>
        /\ RegistryBefore = <<>> => keyring.default_account = Some(call.account)
        /\ (RegistryBefore # <<>> /\ pre.default_account # Absent) =>
               keyring.default_account = pre.default_account

\* C3 witness: a second identity has been saved and the default is still the
\* first one.
C3_Witness ==
    /\ call.op = "save_credentials"
    /\ Len(RegistryBefore) = 1
    /\ ~InSeq(call.account, RegistryBefore)
    /\ Len(Registry) = 2
    /\ keyring.default_account = Some(RegistryBefore[1])

\* C4: deleting the default identity moves the default to the first identity
\* that remains in registry order, or clears it when none remains; deleting
\* another identity leaves the default pointer as it was.
C4_DeleteDefault ==
    call.op = "delete_credentials" =>
        IF pre.default_account = Some(call.account)
        THEN IF Without(RegistryBefore, call.account) # <<>>
             THEN keyring.default_account = Some(Without(RegistryBefore, call.account)[1])
             ELSE keyring.default_account = Absent
        ELSE keyring.default_account = pre.default_account

\* C4 witness: the default was the second of three registered identities and
\* has been deleted; the default is now the first of the registry.
C4_Witness ==
    /\ call.op = "delete_credentials"
    /\ Len(RegistryBefore) = 3
    /\ RegistryBefore[2] = call.account
    /\ pre.default_account = Some(call.account)
    /\ keyring.default_account = Some(RegistryBefore[1])
    /\ Len(Registry) = 2
\* C5: after a delete of identity x, from any store state (a state in which
\* x is registered without a stored record included), x is not in the
\* registry and no record is stored for x.
C5_DeleteRemoves ==
    call.op = "delete_credentials" =>
        /\ ~InSeq(call.account, Registry)
        /\ load_credentials(keyring, call.account) = Absent

\* C6: a delete of an identity that has no stored record raises nothing and
\* leaves the whole store as it was, and a delete repeated right after a
\* delete changes nothing more.
C6_DeleteIdempotent ==
    call.op = "delete_credentials" =>
        /\ ret.kind = "none"
        /\ load_credentials(pre, call.account) = Absent => keyring = pre
        /\ delete_credentials(keyring, call.account) = keyring

\* C6 witness: the deleted identity had no stored record although the
\* registry listed it, next to another identity, and nothing changed.
C6_Witness ==
    /\ call.op = "delete_credentials"
    /\ load_credentials(pre, call.account) = Absent
    /\ InSeq(call.account, RegistryBefore)
    /\ Len(RegistryBefore) >= 2
    /\ keyring = pre

\* C7: after clear_all_accounts the registry is empty, the default is unset
\* and no record is stored for any identity that was registered, whether or
\* not every registered identity had a record to delete.
C7_ClearAll ==
    call.op = "clear_all_accounts" =>
        /\ Registry = <<>>
        /\ get_default_account(keyring) = Absent
        /\ \A i \in 1..Len(RegistryBefore) :
               load_credentials(keyring, RegistryBefore[i]) = Absent

\* C7 witness: the first registered identity had no record to delete, a later
\* one had, and the store is cleared all the same.
C7_Witness ==
    /\ call.op = "clear_all_accounts"
    /\ Len(RegistryBefore) >= 2
    /\ load_credentials(pre, RegistryBefore[1]) = Absent
    /\ load_credentials(pre, RegistryBefore[2]) # Absent
    /\ pre.default_account # Absent
    /\ Registry = <<>>
    /\ load_credentials(keyring, RegistryBefore[2]) = Absent

\* C8: resolve_account answers by the first match in a fixed order: a
\* registered explicit identity; else a registered GMAIL_ACCOUNT identity;
\* else the default when it is set and registered; else the first identity of
\* the registry.
DefaultUsable ==
    /\ keyring.default_account # Absent
    /\ InSeq(Get(keyring.default_account), Registry)

C8_ResolvePriority ==
    call.op = "resolve_account" =>
        /\ (call.account # None /\ InSeq(call.account, Registry)) =>
               ret = Ok(call.account)
        /\ (call.account = None /\ call.env # None /\ InSeq(call.env, Registry)) =>
               ret = Ok(call.env)
        /\ (call.account = None /\ call.env = None /\ DefaultUsable) =>
               ret = Ok(Get(keyring.default_account))
        /\ (call.account = None /\ call.env = None /\ ~DefaultUsable /\ Registry # <<>>) =>
               ret = Ok(Registry[1])

\* C8 witness: no override is given and the default names an identity that is
\* no longer registered; the first of two registered identities is answered.
C8_Witness ==
    /\ call.op = "resolve_account"
    /\ call.account = None /\ call.env = None
    /\ keyring.default_account # Absent
    /\ ~InSeq(Get(keyring.default_account), Registry)
    /\ Len(Registry) = 2
    /\ ret = Ok(Registry[1])

\* C9: an explicit identity that is not registered raises
\* AccountNotFoundError carrying it and the registry, whatever GMAIL_ACCOUNT
\* and the default are; so does an unregistered GMAIL_ACCOUNT identity when
\* no explicit identity is given.
C9_AccountNotFound ==
    call.op = "resolve_account" =>
        /\ (call.account # None /\ ~InSeq(call.account, Registry)) =>
               ret = Result("AccountNotFoundError", call.account, Registry)
        /\ (call.account = None /\ call.env # None /\ ~InSeq(call.env, Registry)) =>
               ret = Result("AccountNotFoundError", call.env, Registry)

\* C9 witness: the explicit identity is not registered while GMAIL_ACCOUNT and
\* the default name registered identities; AccountNotFoundError is raised.
C9_Witness ==
    /\ call.op = "resolve_account"
    /\ call.account # None /\ ~InSeq(call.account, Registry)
    /\ call.env # None /\ InSeq(call.env, Registry)
    /\ DefaultUsable
    /\ ret.kind = "AccountNotFoundError"
    /\ ret.available = Registry

\* C10: on an empty registry resolve_account raises NoAccountConfiguredError
\* exactly when neither an explicit nor a GMAIL_ACCOUNT identity is given;
\* with an override it raises AccountNotFoundError.
C10_EmptyRegistry ==
    (call.op = "resolve_account" /\ Registry = <<>>) =>
        /\ ret.kind = "NoAccountConfiguredError" <=>
               (call.account = None /\ call.env = None)
        /\ (call.account # None \/ call.env # None) =>
               ret.kind = "AccountNotFoundError"

\* C10 witness: the registry is empty, only GMAIL_ACCOUNT is given, and
\* AccountNotFoundError is raised.
C10_Witness ==
    /\ call.op = "resolve_account"
    /\ Registry = <<>>
    /\ call.account = None /\ call.env # None
    /\ ret.kind = "AccountNotFoundError"

\* The stored record the last get_credentials call found for the account it
\* served, and that account.
Served == ret.account
StoredBefore == load_credentials(pre, Served)

\* C11: get_credentials on a stored record whose access token is not expired,
\* with no legacy entry in the store, calls no refresh, returns the stored
\* record as it is and leaves the whole keyring as it was.
C11_FreshUnchanged ==
    (/\ call.op = "get_credentials"
     /\ pre.oauth_credentials = Absent
     /\ Served # None
     /\ StoredBefore # Absent
     /\ now < Get(StoredBefore).token + TokenLifetime) =>
        /\ call.account # None => Served = call.account
        /\ ret.kind = "ok"
        /\ ret.refreshes = 0
        /\ ret.creds = StoredBefore
        /\ keyring = pre

\* C11 witness: the record of an explicitly named account, one of two
\* registered, holds a refresh token and an unexpired access token, and is
\* returned with the keyring untouched.
C11_Witness ==
    /\ call.op = "get_credentials"
    /\ call.account # None
    /\ pre.oauth_credentials = Absent
    /\ StoredBefore # Absent
    /\ Get(StoredBefore).refresh_token
    /\ now < Get(StoredBefore).token + TokenLifetime
    /\ Len(RegistryBefore) = 2
    /\ ret.creds = StoredBefore
    /\ keyring = pre

\* The stored record was expired when the last call started and holds a
\* refresh token.
ExpiredRefreshable ==
    /\ Served # None
    /\ StoredBefore # Absent
    /\ now >= Get(StoredBefore).token + TokenLifetime
    /\ Get(StoredBefore).refresh_token

\* C12: get_credentials on an expired record with a refresh token, the token
\* endpoint accepting the refresh, returns the record with a new access token
\* that is no longer expired, stores exactly that record under the same
\* account, and the account stays where it was in the registry.
C12_RefreshPersisted ==
    (call.op = "get_credentials" /\ call.flag /\ ExpiredRefreshable) =>
        /\ call.account # None => Served = call.account
        /\ ret.kind = "ok"
        /\ ret.refreshes = 1
        /\ ret.creds = Some([Get(StoredBefore) EXCEPT !.token = now])
        /\ ret.creds # StoredBefore
        /\ now < Get(ret.creds).token + TokenLifetime
        /\ load_credentials(keyring, Served) = ret.creds
        /\ InSeq(Served, Registry)
        /\ InSeq(Served, RegistryBefore) => Registry = RegistryBefore

\* C12 witness: the expired record of the third registered account, not the
\* default, has been refreshed and the new record is the one stored.
C12_Witness ==
    /\ call.op = "get_credentials" /\ call.flag
    /\ ExpiredRefreshable
    /\ Len(RegistryBefore) = 3
    /\ RegistryBefore[3] = Served
    /\ pre.default_account # Some(Served)
    /\ load_credentials(keyring, Served) = ret.creds
    /\ load_credentials(keyring, Served) # StoredBefore

\* The last call is one that writes a record for account a: a save, a login,
\* or a migration of the legacy entry (on its own or at the start of
\* get_credentials).
SavesRecord(a) ==
    \/ call.op \in {"save_credentials", "login", "migrate_legacy_credentials"}
           /\ call.account = a
    \/ call.op \in {"get_credentials", "migrate_legacy_credentials"} /\ ProfileCalled(pre)

\* C13: get_credentials on an expired record with a refresh token, the token
\* endpoint rejecting the refresh, returns None and deletes the record; a
\* get_credentials or load_credentials for that account right after returns
\* None as well, and a record for an account only ever appears through a save.
C13_RefreshFailureDeletes ==
    /\ (call.op = "get_credentials" /\ ~call.flag /\ ExpiredRefreshable) =>
           /\ call.account # None => Served = call.account
           /\ ret.kind = "none"
           /\ ret.creds = Absent
           /\ load_credentials(keyring, Served) = Absent
           /\ \A ok \in BOOLEAN :
                  /\ get_credentials(keyring, now, Served, None, None, ok).ret.kind = "none"
                  /\ get_credentials(keyring, now, Served, None, None, ok).k = keyring
    /\ \A a \in Accounts :
           (load_credentials(pre, a) = Absent /\ load_credentials(keyring, a) # Absent) =>
               SavesRecord(a)

\* C13 witness: the refresh of the default account's expired record was
\* rejected while two more accounts were registered; the record is gone and
\* None was returned.
C13_Witness ==
    /\ call.op = "get_credentials" /\ ~call.flag
    /\ ExpiredRefreshable
    /\ Len(RegistryBefore) = 3
    /\ pre.default_account = Some(Served)
    /\ ret.kind = "none"
    /\ load_credentials(keyring, Served) = Absent

\* C14: after a get_credentials call for an account has returned, the record
\* stored for that account is not an expired one: it is absent or its access
\* token is not expired, also when the stored record had no refresh token.
C14_NoExpiredKept ==
    (call.op = "get_credentials" /\ Served # None) =>
        \/ load_credentials(keyring, Served) = Absent
        \/ ~Expired(Get(load_credentials(keyring, Served)), now)

\* What is_authenticated is to answer for the account resolution selects in
\* keyring k: whether get_credentials produces a valid record for it.
ResolvedAuthenticated(k, t, refresh_ok) ==
    LET r == resolve_account(k, None, None)
    IN  /\ r.kind = "ok"
        /\ get_credentials(k, t, r.account, None, None, refresh_ok).ret.kind = "ok"
        /\ Valid(Get(get_credentials(k, t, r.account, None, None, refresh_ok).ret.creds), t)

\* C15: is_authenticated called without an account answers for the account
\* resolution selects (the default when set and registered, else the first of
\* the registry): true exactly when a valid record can be produced for it.
C15_ChecksResolved ==
    (call.op = "is_authenticated" /\ call.account = None) =>
        ret.flag = ResolvedAuthenticated(pre, now, call.flag)

\* ------------------------------------------------- claims on the executor
Executions == Len(exec.outcomes)
RateLimited == HttpError(429)

\* C16 as stated: one call of the executor executes the request no more than
\* MAX_RETRIES times.
C16_AtMostMaxRetries == Executions <= MAX_RETRIES

\* C16 as amended: whatever the remote side answers, a call of the executor
\* ends, having executed the request at most MAX_RETRIES + 1 times (the
\* MAX_RETRIES rounds of the loop and the final attempt) and slept at most
\* MAX_RETRIES times.
C16_BoundedExecutions ==
    /\ [](Executions <= MAX_RETRIES + 1 /\ Len(exec.sleeps) <= MAX_RETRIES)
    /\ (exec.pc \in {"loop", "final"}) ~> (exec.pc = "done")

\* C16 witness: rate-limited in every round of the loop, the request was
\* executed a fourth time and that response was returned.
C16_Witness ==
    /\ exec.pc = "done"
    /\ exec.outcomes = <<RateLimited, RateLimited, RateLimited, Response>>
    /\ exec.result.kind = "response"

\* C17: the executor has slept once for every rate-limited execution that a
\* retry follows, and not otherwise; the k-th sleep (k from 0) lasts
\* BASE_DELAY * 2^k seconds.  Rate-limited twice and then answered, the call
\* returns the response after 3 executions and sleeps of 1 and 2 seconds.
C17_Backoff ==
    /\ Len(exec.sleeps) = IF exec.pc = "done" THEN Executions - 1 ELSE Executions
    /\ \A k \in 1..Len(exec.sleeps) :
           /\ exec.outcomes[k] = RateLimited
           /\ exec.sleeps[k] = BASE_DELAY * (2 ^ (k - 1))
    /\ (exec.pc = "done" /\ exec.outcomes = <<RateLimited, RateLimited, Response>>) =>
           /\ exec.result = Returned(Response)
           /\ exec.sleeps = <<1, 2>>

\* C17 witness: rate-limited twice, then answered.
C17_Witness ==
    /\ exec.pc = "done"
    /\ exec.outcomes = <<RateLimited, RateLimited, Response>>
    /\ exec.sleeps = <<1, 2>>
    /\ exec.result.kind = "response"

\* C18: an execution that raises RefreshError, the first or a later one, is
\* the last of the call: the executor raises TokenExpiredError carrying the
\* account it was given, without sleeping after it; on the first execution
\* that is one execution and no sleep.
C18_TokenExpired ==
    \A i \in 1..Executions :
        exec.outcomes[i] = RefreshError =>
            /\ i = Executions
            /\ exec.pc = "done"
            /\ exec.result = TokenExpiredError(exec.account)
            /\ Len(exec.sleeps) = i - 1

\* C18 witness: the final attempt, after three rate-limited rounds, raised
\* RefreshError for a named account.
C18_Witness ==
    /\ exec.pc = "done"
    /\ exec.account # None
    /\ exec.outcomes = <<RateLimited, RateLimited, RateLimited, RefreshError>>
    /\ exec.result = TokenExpiredError(exec.account)

\* C19: every execution but the last of a call was rate-limited, and an
\* HttpError with another status is the last execution of the call: it is
\* raised to the caller as it is, without a sleep after it.
C19_OtherFailuresPropagate ==
    /\ \A i \in 1..(Executions - 1) : exec.outcomes[i] = RateLimited
    /\ \A i \in 1..Executions :
           (exec.outcomes[i].kind = "HttpError" /\ exec.outcomes[i].status # 429) =>
               /\ i = Executions
               /\ exec.pc = "done"
               /\ exec.result = Returned(exec.outcomes[i])
               /\ Len(exec.sleeps) = i - 1

\* C19 witness: rate-limited once, then status 500, which is raised.
C19_Witness ==
    /\ exec.pc = "done"
    /\ exec.outcomes = <<RateLimited, HttpError(500)>>
    /\ exec.result = [kind |-> "HttpError", account |-> None, status |-> 500]
    /\ exec.sleeps = <<1>>

\* C20: an execution that succeeds is the last of the call and its response
\* is what the call returns: at most one execution of a call succeeds.
C20_OneSuccess ==
    /\ \A i \in 1..Executions :
           exec.outcomes[i] = Response =>
               /\ i = Executions
               /\ exec.pc = "done"
               /\ exec.result = Returned(Response)
    /\ Cardinality({i \in 1..Executions : exec.outcomes[i] = Response}) <= 1

\* C20 witness: rate-limited once, then answered; the call is over.
C20_Witness ==
    /\ exec.pc = "done"
    /\ exec.outcomes = <<RateLimited, Response>>
    /\ exec.result.kind = "response"

\* C21: a call whose executions were all rate-limited ends after the final
\* attempt by raising that attempt's HttpError 429 as it is, with no sleep
\* after it; and HttpError 429 reaches the caller only so, after the loop's
\* rounds and the final attempt were all rate-limited.
C21_RateLimitExhausted ==
    /\ (exec.pc = "done" /\ \A i \in 1..Executions : exec.outcomes[i] = RateLimited) =>
           /\ exec.result = [kind |-> "HttpError", account |-> None, status |-> 429]
           /\ Len(exec.sleeps) = Executions - 1
    /\ exec.result.status = 429 =>
           /\ exec.pc = "done"
           /\ exec.result.kind = "HttpError"
           /\ Executions = MAX_RETRIES + 1
           /\ \A i \in 1..Executions : exec.outcomes[i] = RateLimited
    /\ (exec.pc # "done" \/ exec.outcomes[Executions] # RateLimited) =>
           exec.result.status # 429

\* C21 witness: four rate-limited executions, three sleeps, HttpError 429
\* raised.
C21_Witness ==
    /\ exec.pc = "done"
    /\ exec.outcomes = <<RateLimited, RateLimited, RateLimited, RateLimited>>
    /\ exec.sleeps = <<1, 2, 4>>
    /\ exec.result.kind = "HttpError" /\ exec.result.status = 429

\* C22: when the remote call of a guarded command ends in TokenExpiredError,
\* the command exits with a non-zero status and the record of the account it
\* was run for (given by --account or resolved) is no longer stored.
C22_TokenExpiredDeletes ==
    (call.op = "search_command" /\ call.flag) =>
        /\ ret.kind = "exit" /\ ret.code # 0
        /\ ret.account # None
        /\ load_credentials(keyring, ret.account) = Absent

\* The registry lists exactly the identities that have a stored record.
Consistent(k) ==
    \A a \in Accounts : InSeq(a, list_accounts(k)) <=> load_credentials(k, a) # Absent

\* C23: with one invocation persisting a refreshed record access by access
\* (write the record, read the registry, write the registry) while another
\* deletes, a store in which registry and records disagree is reached, and it
\* is only ever a write of the interleaved invocation that takes the store
\* there: no completed call, run on its own in either order, does.
C23_OnlyRaceBreaks ==
    [][(Consistent(keyring) /\ ~Consistent(keyring')) =>
           pc \in {"set_password", "append"}]_vars

\* C23 witness: the refreshing invocation has finished, a delete of the same
\* account completed in between, and the account is listed without a record.
C23_Witness ==
    /\ pc = "idle"
    /\ Idle
    /\ \E a \in Accounts :
           /\ InSeq(a, Registry)
           /\ load_credentials(keyring, a) = Absent
           /\ keyring.default_account = Some(a)

\* C24: the list logout returns names only identities that were registered
\* before the call and that have neither a record nor a registry entry after
\* it: the account given, the whole former registry for all_accounts, the
\* resolved account otherwise, nothing when no account is configured.
C24_LogoutReturns ==
    call.op = "logout" =>
        /\ \A i \in 1..Len(ret.accounts) :
               /\ InSeq(ret.accounts[i], RegistryBefore)
               /\ load_credentials(keyring, ret.accounts[i]) = Absent
               /\ ~InSeq(ret.accounts[i], Registry)
        /\ call.flag => ret.accounts = RegistryBefore
        /\ (~call.flag /\ call.account # None) => ret.accounts = <<call.account>>
        /\ (~call.flag /\ call.account = None) =>
               ret.accounts = IF resolve_account(pre, None, call.env).kind = "ok"
                              THEN <<resolve_account(pre, None, call.env).account>>
                              ELSE <<>>

\* C25: `auth set-default EMAIL` exits 1 and changes nothing in the store when
\* EMAIL is not in the registry; for a registered EMAIL it sets the default
\* pointer to EMAIL and changes nothing else.  set_default_account itself
\* overwrites the pointer for any account, registered or not.
C25_SetDefaultChecksRegistry ==
    /\ call.op = "set_default" =>
           IF InSeq(call.account, RegistryBefore)
           THEN /\ ret.kind = "ok"
                /\ keyring = [pre EXCEPT !.default_account = Some(call.account)]
           ELSE /\ ret.kind = "exit" /\ ret.code = 1
                /\ keyring = pre
    /\ \A a \in Accounts :
           set_default_account(keyring, a) = [keyring EXCEPT !.default_account = Some(a)]

\* set-default was refused for an account that is not one of the registered.
C25_Witness ==
    /\ call.op = "set_default"
    /\ Registry # <<>>
    /\ ~InSeq(call.account, RegistryBefore)
    /\ ret.kind = "exit"
    /\ keyring.default_account # Some(call.account)

\* C26: migrate_legacy_credentials returns True only when a legacy entry and
\* no registry entry existed; after it returned True the legacy entry is
\* gone, the migrated account is registered with a loadable record and is the
\* default, and a repeated call returns False and leaves the store as it is.
\* With a registry entry present, a legacy entry is removed, nothing else
\* changes and the call returns False.
C26_MigrationOneShot ==
    call.op = "migrate_legacy_credentials" =>
        /\ ret.flag => pre.oauth_credentials # Absent /\ pre.accounts_list = Absent
        /\ ret.flag =>
               /\ keyring.oauth_credentials = Absent
               /\ InSeq(call.account, Registry)
               /\ load_credentials(keyring, call.account) # Absent
               /\ get_default_account(keyring) = Some(call.account)
               /\ \A e \in AccountOrNone :
                      migrate_legacy_credentials(keyring, now, e) =
                          [k |-> keyring, migrated |-> FALSE]
        /\ pre.accounts_list # Absent =>
               /\ ~ret.flag
               /\ keyring = [pre EXCEPT !.oauth_credentials = Absent]

\* A legacy entry has just been migrated.
C26_Witness ==
    /\ call.op = "migrate_legacy_credentials"
    /\ ret.flag
    /\ pre.oauth_credentials # Absent
    /\ Registry = <<call.account>>

\* ---------------------------------------------------- claims on mark.py
\* The message IDs attempted so far, in the order of the attempts.
Attempted == [i \in 1..Len(mark.results) |-> mark.results[i].id]
IsPrefix(s, t) == Len(s) <= Len(t) /\ \A i \in 1..Len(s) : s[i] = t[i]
LoopEntered ==
    /\ mark.authenticated
    /\ mark.read # mark.unread
    /\ mark.kind \notin {"AccountNotFoundError", "NoAccountConfiguredError"}

C28_SequentialConsistent == Consistent(keyring)

\* An account was deleted from a store that keeps others.
C28_Witness ==
    /\ call.op = "delete_credentials"
    /\ InSeq(call.account, RegistryBefore)
    /\ ~InSeq(call.account, Registry)
    /\ load_credentials(keyring, call.account) = Absent
    /\ Registry # <<>>

\* C29: with invocations running one after the other, a store whose registry
\* is not empty has a default account.
C29_DefaultWhenRegistered ==
    Registry # <<>> => get_default_account(keyring) # Absent

\* The default was deleted, or dropped after a failed refresh, and another
\* account is left.
C29_Witness ==
    /\ call.op \in {"delete_credentials", "get_credentials"}
    /\ get_default_account(pre) # Absent
    /\ ~InSeq(Get(get_default_account(pre)), Registry)
    /\ Registry # <<>>
    /\ get_default_account(keyring) # Absent

\* -------------------------------------------------- claims on the gate
GatePassed == ~(ret.kind = "exit" /\ ~ret.flag)

\* The stores that hold the same record for account as k does and another
\* record for one of the other stored accounts.
OtherRecordsDiffer(k, account) ==
    {[k EXCEPT !.oauth[b] = Some(c)] :
        b \in {a \in Accounts \ {account} : load_credentials(k, a) # Absent},
        c \in UNION {Credentials(t) : t \in 0..MaxTime}}

\* C30: for a command behind the gate run with --account X, the gate decides
\* the same on every store that holds the same record for X, whatever the
\* records of the other accounts are, and a run that passed the gate has left
\* the records of the other accounts as they were.
C30_GateLooksAtAccount ==
    (call.op = "search_command" /\ call.account # None) =>
        /\ \A k2 \in OtherRecordsDiffer(pre, call.account) :
               \E g \in BOOLEAN :
                   is_authenticated(k2, now, None, None, g).ret.flag = GatePassed
        /\ GatePassed =>
               \A b \in Accounts \ {call.account} :
                   load_credentials(keyring, b) = load_credentials(pre, b)
====
